---- MODULE Spec2Model ----
(***************************************************************************)
(* Model of code/evaluation_framework.py of sfan: the consistency          *)
(* (stability) index, pairwise and k-way, the selection of the optimal     *)
(* hyperparameters, the parsing of the solver's standard output, and the   *)
(* Framework's cross-validation / subsample indices.                       *)
(*                                                                         *)
(* Python floats are modelled as exact rationals <<numerator, denominator>>*)
(* in lowest terms with a positive denominator, so equality of two values  *)
(* is equality of the pairs.  Python lists are sequences, Python sets are  *)
(* sets, a raised exception is an outcome record with a non-empty exc.     *)
(***************************************************************************)
EXTENDS Integers, Sequences, FiniteSets, TLC

VARIABLES
    pc,             \* position of the running unit ("ci_ready", "ci_done", ...)
    sel1, sel2,     \* consistency_index: the two sets of selected features
    num_features,   \* total number of features
    cidx,           \* outcome of consistency_index / consistency_index_k
    sel_list,       \* consistency_index_k: list of k lists of selected features
    selected_dict,  \* get_optimal_parameters_from_dict: params -> task -> sel_list
    opt_params,     \* its outcome
    mode,           \* solver adapter: which of run_sfan, run_msfan_nocorr, run_msfan
    num_tasks,      \* number of tasks handed to the solver
    solver_lines,   \* what the solver selected: its data lines, 1-based indices
    stdout,         \* the text the solver wrote, a sequence of characters
    ret_sel_list,   \* what the adapter returned
    ad_exc,         \* the exception the adapter raised, "" when none
    num_samples, num_folds, num_subsamples,   \* Framework attributes
    xp_indices,     \* Framework.xp_indices: fold -> trIndices, teIndices, ssIndices
    ncalls,         \* how many times compute_indices ran on this Framework
    causal,         \* performance scoring: per task, the list of causal features
    selected_list,  \* performance scoring: per task, the list of selected features
    measures        \* outcome of the scoring call

vars == <<pc, sel1, sel2, num_features, cidx, sel_list, selected_dict, opt_params,
          mode, num_tasks, solver_lines, stdout, ret_sel_list, ad_exc,
          num_samples, num_folds, num_subsamples, xp_indices, ncalls,
          causal, selected_list, measures>>

----------------------------------------------------------------------------
(* Bounds of the model *)

MaxFeatures == 4        \* consistency_index: num_features ranges over 0..MaxFeatures
KNumFeatures == 3       \* consistency_index_k: features are 0..KNumFeatures-1
MaxK == 3               \* consistency_index_k: sel_list holds 0..MaxK selections
MaxSettings == 2        \* get_optimal_parameters_from_dict: 0..MaxSettings settings
OptNumFeatures == 5     \* get_optimal_parameters_from_dict: num_features
MaxTasks == 2           \* solver adapter: num_tasks ranges over 1..MaxTasks
MaxLineLen == 2         \* solver adapter: a data line holds 0..MaxLineLen indices
MaxSamples == 5         \* Framework: num_samples ranges over 1..MaxSamples
MaxFolds == 4           \* Framework: num_folds ranges over 0..MaxFolds
MaxSubsamples == 2      \* Framework: num_subsamples ranges over 0..MaxSubsamples
MaxCalls == 2           \* Framework: compute_indices runs at most MaxCalls times
PpNumFeatures == 2      \* performance scoring: features are 0..PpNumFeatures-1

----------------------------------------------------------------------------
(* Float arithmetic, as exact rationals *)

Abs(x) == IF x < 0 THEN -x ELSE x

Min(a, b) == IF a < b THEN a ELSE b

RECURSIVE GCD(_, _)
GCD(a, b) == IF b = 0 THEN a ELSE GCD(b, a % b)

\* n/d in lowest terms, d # 0
Rat(n, d) ==
    LET g == GCD(Abs(n), Abs(d))
        s == IF d < 0 THEN -1 ELSE 1
    IN  <<(s * n) \div g, (s * d) \div g>>

Float(i) == <<i, 1>>

RatAdd(x, y) == Rat(x[1] * y[2] + y[1] * x[2], x[2] * y[2])
RatSub(x, y) == Rat(x[1] * y[2] - y[1] * x[2], x[2] * y[2])
RatMul(x, y) == Rat(x[1] * y[1], x[2] * y[2])
\* y # 0; a division by zero is raised by the caller before it gets here
RatDiv(x, y) == Rat(x[1] * y[2], x[2] * y[1])
RatLt(x, y) == x[1] * y[2] < y[1] * x[2]

\* Outcomes of a call: a returned value, or a raised exception
Ret(v) == [exc |-> "", val |-> v]
Raise(e) == [exc |-> e, val |-> Float(0)]

\* x / y on floats: ZeroDivisionError when y is 0
FloatDiv(x, y) == IF y[1] = 0 THEN Raise("ZeroDivisionError") ELSE Ret(RatDiv(x, y))

----------------------------------------------------------------------------
(* consistency_index(sel1, sel2, num_features) *)

\* The guard written without line 37's test, every pair is divided
consistency_index_noguard(s1, s2, nf) ==
    LET observed == Float(Cardinality(s1 \cap s2))
        expected == FloatDiv(Float(Cardinality(s1) * Cardinality(s2)), Float(nf))
        maxposbl == Float(Min(Cardinality(s1), Cardinality(s2)))
    IN  IF expected.exc # "" THEN expected
        ELSE FloatDiv(RatSub(observed, expected.val), RatSub(maxposbl, expected.val))

\* expected computed with Python 2's integer division (float() left out)
consistency_index_intdiv(s1, s2, nf) ==
    LET observed == Float(Cardinality(s1 \cap s2))
        expected == IF nf = 0 THEN Raise("ZeroDivisionError")
                    ELSE Ret(Float((Cardinality(s1) * Cardinality(s2)) \div nf))
        maxposbl == Float(Min(Cardinality(s1), Cardinality(s2)))
    IN  IF expected.exc # "" THEN expected
        ELSE IF expected.val # maxposbl
             THEN FloatDiv(RatSub(observed, expected.val), RatSub(maxposbl, expected.val))
             ELSE Ret(Float(0))

\* The union counted for the intersection
Observed_union(s1, s2) == Float(Cardinality(s1 \cup s2))

\* Line 31: observed = float(len(sel1.intersection(sel2)))
Observed(s1, s2) == Float(Cardinality(s1 \cap s2))

\* Line 32: expected = len(sel1) * len(sel2) / float(num_features)
Expected(s1, s2, nf) == FloatDiv(Float(Cardinality(s1) * Cardinality(s2)), Float(nf))

\* The size of the first selection taken for the smaller one
Maxposbl_first(s1, s2) == Float(Cardinality(s1))

\* max written for min
Maxposbl_max(s1, s2) ==
    Float(IF Cardinality(s1) < Cardinality(s2) THEN Cardinality(s2) ELSE Cardinality(s1))

\* Line 33: maxposbl = float(min(len(sel1), len(sel2)))
Maxposbl(s1, s2) == Float(Min(Cardinality(s1), Cardinality(s2)))

\* The test made on observed instead of expected
NotTrivial_observed(observed, expected, maxposbl) == observed # maxposbl

\* Line 37: if expected != maxposbl
NotTrivial(observed, expected, maxposbl) == expected # maxposbl

consistency_index(s1, s2, nf) ==
    LET observed == Observed(s1, s2)
        expected == Expected(s1, s2, nf)
        maxposbl == Maxposbl(s1, s2)
    IN  IF expected.exc # "" THEN expected
        ELSE IF NotTrivial(observed, expected.val, maxposbl)
             THEN FloatDiv(RatSub(observed, expected.val), RatSub(maxposbl, expected.val))
             ELSE Ret(Float(0))

----------------------------------------------------------------------------
(* consistency_index_k(sel_list, num_features) *)

\* set(sel): the set of a list's elements
ToSet(sel) == {sel[i] : i \in DOMAIN sel}

\* for sel2 in rest: cidx += consistency_index(set(sel1), set(sel2), num_features)
RECURSIVE InnerLoop(_, _, _, _)
InnerLoop(s1, rest, nf, acc) ==
    IF acc.exc # "" \/ rest = <<>> THEN acc
    ELSE LET c == consistency_index(ToSet(s1), ToSet(Head(rest)), nf)
         IN  IF c.exc # "" THEN c
             ELSE InnerLoop(s1, Tail(rest), nf, Ret(RatAdd(acc.val, c.val)))

\* The inner loop started at sel_list[k1:] instead of sel_list[k1+1:]
InnerRest_fromself(sl, k1) == SubSeq(sl, k1, Len(sl))

\* sel_list[k1+1:], k1 counted from 1 here
InnerRest(sl, k1) == SubSeq(sl, k1 + 1, Len(sl))

\* for k1, sel1 in enumerate(sel_list[:-1]): the inner loop on sel_list[k1+1:]
RECURSIVE OuterLoop(_, _, _, _)
OuterLoop(sl, k1, nf, acc) ==
    IF acc.exc # "" \/ k1 > Len(sl) - 1 THEN acc
    ELSE OuterLoop(sl, k1 + 1, nf, InnerLoop(sl[k1], InnerRest(sl, k1), nf, acc))

consistency_index_k(sl, nf) ==
    LET summed == OuterLoop(sl, 1, nf, Ret(Float(0)))
        factor == FloatDiv(Float(2), Float(Len(sl) * (Len(sl) - 1)))
    IN  IF summed.exc # "" THEN summed
        ELSE IF factor.exc # "" THEN factor
        ELSE Ret(RatMul(factor.val, summed.val))

----------------------------------------------------------------------------
(* get_optimal_parameters_from_dict(selected_dict, num_features) *)

\* opt_params = '' (line 237): the value returned when no setting was adopted
EmptyParams == ""

\* All orders in which a dictionary may hand out the keys S
Orders(S) == {o \in [1..Cardinality(S) -> S] : \A i, j \in DOMAIN o : o[i] = o[j] => i = j}

\* The loop body with ">=" for ">": a score equal to the optimum is adopted
Visit_geq(st, params, sl, nf) ==
    IF st.exc # "" THEN st
    ELSE LET c == consistency_index_k(sl, nf)
         IN  IF c.exc # "" THEN [st EXCEPT !.exc = c.exc]
             ELSE IF ~RatLt(c.val, st.opt_cindex)
                  THEN [st EXCEPT !.opt_cindex = c.val, !.opt_params = params]
                  ELSE st

\* The loop body without line 243: the optimum score is never raised
Visit_noraise(st, params, sl, nf) ==
    IF st.exc # "" THEN st
    ELSE LET c == consistency_index_k(sl, nf)
         IN  IF c.exc # "" THEN [st EXCEPT !.exc = c.exc]
             ELSE IF RatLt(st.opt_cindex, c.val)
                  THEN [st EXCEPT !.opt_params = params]
                  ELSE st

\* Lines 241-244, the body of the nested loop, on the running optimum st
Visit(st, params, sl, nf) ==
    IF st.exc # "" THEN st
    ELSE LET c == consistency_index_k(sl, nf)
         IN  IF c.exc # "" THEN [st EXCEPT !.exc = c.exc]
             ELSE IF RatLt(st.opt_cindex, c.val)
                  THEN [st EXCEPT !.opt_cindex = c.val, !.opt_params = params]
                  ELSE st

\* for (task_idx, sel_list) in selected_dict_p.iteritems(), in the order torder
RECURSIVE TaskLoop(_, _, _, _, _)
TaskLoop(st, params, dp, torder, nf) ==
    IF torder = <<>> THEN st
    ELSE TaskLoop(Visit(st, params, dp[Head(torder)], nf), params, dp, Tail(torder), nf)

\* for (params, selected_dict_p) in selected_dict.iteritems(), in the order porder
RECURSIVE ParamLoop(_, _, _, _, _)
ParamLoop(st, d, porder, torders, nf) ==
    IF porder = <<>> THEN st
    ELSE ParamLoop(TaskLoop(st, Head(porder), d[Head(porder)], torders[Head(porder)], nf),
                   d, Tail(porder), torders, nf)

get_optimal_parameters_from_dict(d, nf, porder, torders) ==
    ParamLoop([exc |-> "", opt_params |-> EmptyParams, opt_cindex |-> Float(0)],
              d, porder, torders, nf)

----------------------------------------------------------------------------
(* The solver's standard output, as text *)

Digits == <<"0", "1", "2", "3", "4", "5", "6", "7", "8", "9">>

IsDigit(c) == \E i \in DOMAIN Digits : Digits[i] = c
DigitVal(c) == (CHOOSE i \in DOMAIN Digits : Digits[i] = c) - 1

IsSpace(c) == c \in {" ", "\t", "\n", "\r"}

\* str(n) for n >= 0
RECURSIVE IntToStr(_)
IntToStr(n) == IF n < 10 THEN <<Digits[n + 1]>>
               ELSE IntToStr(n \div 10) \o <<Digits[(n % 10) + 1]>>

\* " ".join(str(x) for x in idxs)
RECURSIVE RenderLine(_)
RenderLine(idxs) ==
    IF idxs = <<>> THEN <<>>
    ELSE IF Len(idxs) = 1 THEN IntToStr(idxs[1])
    ELSE IntToStr(idxs[1]) \o <<" ">> \o RenderLine(Tail(idxs))

\* "\n".join(lines)
RECURSIVE JoinLines(_)
JoinLines(lines) ==
    IF lines = <<>> THEN <<>>
    ELSE IF Len(lines) = 1 THEN lines[1]
    ELSE lines[1] \o <<"\n">> \o JoinLines(Tail(lines))

\* What the solver writes: h header lines, then one line per entry of lines,
\* with or without a final line break
SolverOutput(h, lines, final_newline) ==
    JoinLines([i \in 1..h |-> <<"#">>] \o [i \in DOMAIN lines |-> RenderLine(lines[i])])
        \o (IF final_newline THEN <<"\n">> ELSE <<>>)

----------------------------------------------------------------------------
(* run_sfan, run_msfan_nocorr, run_msfan: reading the solver's output *)

SfanHeaderLines == 2            \* [2:2+num_tasks]
MsfanNocorrHeaderLines == 3     \* [3:3+num_tasks]
MsfanHeaderLines == 3           \* [3:3+num_tasks]

\* text.split(sep)
RECURSIVE Split(_, _)
Split(text, sep) ==
    IF \A i \in DOMAIN text : text[i] # sep THEN <<text>>
    ELSE LET i == CHOOSE i \in DOMAIN text :
                      text[i] = sep /\ \A j \in 1..(i - 1) : text[j] # sep
         IN  <<SubSeq(text, 1, i - 1)>> \o Split(SubSeq(text, i + 1, Len(text)), sep)

\* line.split(): the words between runs of whitespace
RECURSIVE SplitWS(_)
SplitWS(line) ==
    IF line = <<>> THEN <<>>
    ELSE IF IsSpace(Head(line)) THEN SplitWS(Tail(line))
    ELSE LET stops == {i \in DOMAIN line : IsSpace(line[i])}
             n == IF stops = {} THEN Len(line) + 1
                  ELSE CHOOSE i \in stops : \A j \in stops : i <= j
         IN  <<SubSeq(line, 1, n - 1)>> \o SplitWS(SubSeq(line, n, Len(line)))

\* int(x) of a word of digits, most significant first
RECURSIVE DigitsValue(_)
DigitsValue(word) ==
    IF word = <<>> THEN 0
    ELSE 10 * DigitsValue(SubSeq(word, 1, Len(word) - 1)) + DigitVal(word[Len(word)])

\* int(x): ValueError on anything but digits
ParseInt(word) ==
    IF word # <<>> /\ \A i \in DOMAIN word : IsDigit(word[i])
    THEN Ret(DigitsValue(word))
    ELSE Raise("ValueError")

\* seq[a:b] with 0 <= a <= b
Slice(seq, a, b) == SubSeq(seq, a + 1, Min(b, Len(seq)))

\* The index kept as the solver wrote it, 1-based
SelectedFeature_nooffset(x) == x

\* int(x)-1
SelectedFeature(x) == x - 1

\* [(int(x)-1) for x in line.split()]
RECURSIVE ParseWords(_)
ParseWords(words) ==
    IF words = <<>> THEN Ret(<<>>)
    ELSE LET x == ParseInt(Head(words))
             rest == ParseWords(Tail(words))
         IN  IF x.exc # "" THEN x
             ELSE IF rest.exc # "" THEN rest
             ELSE Ret(<<SelectedFeature(x.val)>> \o rest.val)

\* [[...] for line in p_out]
RECURSIVE ParseLines(_)
ParseLines(lines) ==
    IF lines = <<>> THEN Ret(<<>>)
    ELSE LET l == ParseWords(SplitWS(Head(lines)))
             rest == ParseLines(Tail(lines))
         IN  IF l.exc # "" THEN l
             ELSE IF rest.exc # "" THEN rest
             ELSE Ret(<<l.val>> \o rest.val)

\* p_out = p.communicate()[0].split("\n")[h:h+num_tasks], then sel_list and the
\* test "if not sel_list" that stops in pdb.set_trace()
ReadSelected(out, h, nt) ==
    LET p_out == Slice(Split(out, "\n"), h, h + nt)
        sl == ParseLines(p_out)
    IN  [exc |-> sl.exc, pdb |-> sl.exc = "" /\ sl.val = <<>>, val |-> sl.val]

run_sfan(nt, out) == ReadSelected(out, SfanHeaderLines, nt)

run_msfan_nocorr(nt, out) == ReadSelected(out, MsfanNocorrHeaderLines, nt)

run_msfan(nt, out) == ReadSelected(out, MsfanHeaderLines, nt)

----------------------------------------------------------------------------
(* Framework: __init__ and compute_indices *)

None == "None"

\* sklearn.cross_validation.KFold(n, n_folds): ValueError unless 2 <= n_folds <= n
KFoldRaises(n, k) == k <= 1 \/ k > n

\* Fold i (from 0) of KFold(n, k) without shuffling: the first n % k folds hold
\* n // k + 1 consecutive indices, the others n // k
KFoldStart(n, k, i) == i * (n \div k) + Min(i, n % k)

KFoldTest(n, k, i) ==
    [j \in 1..(KFoldStart(n, k, i + 1) - KFoldStart(n, k, i)) |-> KFoldStart(n, k, i) + j - 1]

\* The indices 0..n-1 that are not in fold i, ascending
KFoldTrain(n, k, i) ==
    [j \in 1..KFoldStart(n, k, i) |-> j - 1]
        \o [j \in 1..(n - KFoldStart(n, k, i + 1)) |-> KFoldStart(n, k, i + 1) + j - 1]

\* Framework.__init__: one entry per fold, nothing computed yet
InitIndices(k) ==
    [i \in 0..(k - 1) |-> [trIndices |-> None, teIndices |-> None, ssIndices |-> <<>>]]

\* ss = KFold(self.num_samples, n_folds=self.num_folds); every train_index of it
\* is appended to ssIndices
SubsampleSets(n, k) == [j \in 1..k |-> KFoldTrain(n, k, j - 1)]

\* The two lists of a fold stored under each other's key
FoldIndices_swapped(old, n, k, i) ==
    [trIndices |-> KFoldTest(n, k, i),
     teIndices |-> KFoldTrain(n, k, i),
     ssIndices |-> old.ssIndices \o SubsampleSets(n, k)]

\* Lines 366-372 for fold i: the entry of xp_indices[i] after the loop body
FoldIndices(old, n, k, i) ==
    [trIndices |-> KFoldTrain(n, k, i),
     teIndices |-> KFoldTest(n, k, i),
     ssIndices |-> old.ssIndices \o SubsampleSets(n, k)]

----------------------------------------------------------------------------
(* compute_ppv_sensitivity, and the scoring called by handle-output.py *)

\* The body is "return ppv_list, tpr_list" after a TODO: neither name is ever
\* bound, so the return statement raises NameError whatever the arguments
compute_ppv_sensitivity(causal_features, selected) == Raise("NameError")

\* handle-output.py calls ef.compute_measures_classification(causal_fname,
\* selected, num_features): the script never binds ef (its only imports are
\* sde and logging), and evaluation_framework.py defines no function of that
\* name, so the call raises NameError
compute_measures_classification(causal_features, selected, nf) == Raise("NameError")

----------------------------------------------------------------------------
(* Inputs *)

\* All sequences over S of length 0..n
SeqsUpTo(S, n) == UNION {[1..m -> S] : m \in 0..n}

\* The elements of a set of integers as an ascending list
RECURSIVE SortedSeq(_)
SortedSeq(S) ==
    IF S = {} THEN <<>>
    ELSE LET m == CHOOSE x \in S : \A y \in S : x <= y
         IN  <<m>> \o SortedSeq(S \ {m})

\* Hyperparameter settings, in the '-l <lambda> -e <eta> -m <mu>' format
ParamNames == <<"-l 0.1 -e 0.1 -m 0.1", "-l 0.1 -e 0.1 -m 0.2",
                "-l 0.1 -e 0.2 -m 0.1", "-l 0.2 -e 0.1 -m 0.1">>

\* Task indices of the dictionaries handed to get_optimal_parameters_from_dict
OptTasks == {0, 1}

\* Lists of selections per (setting, task), one per subsample: with 5 features
\* their k-way indices are 1, 1/6, 0 and -3/2; the list of a single selection
\* makes consistency_index_k raise ZeroDivisionError
SelListSamples == {<<<<0, 1>>, <<0, 1>>>>,
                   <<<<0, 1>>, <<1, 2>>>>,
                   <<<<>>, <<0, 1>>>>,
                   <<<<0, 1>>, <<2, 3, 4>>>>,
                   <<<<0, 1>>>>}

\* 1-based feature indices the solver may print
SolverIndices == {1, 12}

Modes == {"run_sfan", "run_msfan_nocorr", "run_msfan"}

HeaderLines(m) == IF m = "run_sfan" THEN SfanHeaderLines
                  ELSE IF m = "run_msfan_nocorr" THEN MsfanNocorrHeaderLines
                  ELSE MsfanHeaderLines

----------------------------------------------------------------------------
(* Initial states: the inputs of each unit, the other variables idle *)

ciVars == <<sel1, sel2, num_features, cidx>>
kVars == <<sel_list>>
optVars == <<selected_dict, opt_params>>
adVars == <<mode, num_tasks, solver_lines, stdout, ret_sel_list, ad_exc>>
fwVars == <<num_samples, num_folds, num_subsamples, xp_indices, ncalls>>
ppVars == <<causal, selected_list, measures>>

IdleCI == sel1 = {} /\ sel2 = {} /\ num_features = 0 /\ cidx = Ret(Float(0))
IdleK == sel_list = <<>>
IdleOpt == selected_dict = <<>> /\ opt_params = EmptyParams
IdleAd == mode = "" /\ num_tasks = 0 /\ solver_lines = <<>> /\ stdout = <<>>
          /\ ret_sel_list = <<>> /\ ad_exc = ""
IdleFw == num_samples = 0 /\ num_folds = 0 /\ num_subsamples = 0
          /\ xp_indices = <<>> /\ ncalls = 0

IdlePp == causal = <<>> /\ selected_list = <<>> /\ measures = Ret(<<>>)

InitCI ==
    /\ pc = "ci_ready"
    /\ num_features \in 0..MaxFeatures
    /\ sel1 \in SUBSET (0..(num_features - 1))
    /\ sel2 \in SUBSET (0..(num_features - 1))
    /\ cidx = Ret(Float(0))
    /\ IdleK /\ IdleOpt /\ IdleAd /\ IdleFw /\ IdlePp

InitK ==
    /\ pc = "k_ready"
    /\ num_features = KNumFeatures
    /\ sel_list \in SeqsUpTo({SortedSeq(S) : S \in SUBSET (0..(KNumFeatures - 1))}, MaxK)
    /\ sel1 = {} /\ sel2 = {} /\ cidx = Ret(Float(0))
    /\ IdleOpt /\ IdleAd /\ IdleFw /\ IdlePp

InitOpt ==
    /\ pc = "opt_ready"
    /\ num_features = OptNumFeatures
    /\ \E s \in 0..MaxSettings :
           selected_dict \in [{ParamNames[i] : i \in 1..s} -> [OptTasks -> SelListSamples]]
    /\ opt_params = EmptyParams
    /\ sel1 = {} /\ sel2 = {} /\ cidx = Ret(Float(0))
    /\ IdleK /\ IdleAd /\ IdleFw /\ IdlePp

InitAd ==
    /\ pc = "ad_ready"
    /\ mode \in Modes
    /\ num_tasks \in 1..MaxTasks
    /\ solver_lines \in SeqsUpTo(SeqsUpTo(SolverIndices, MaxLineLen), num_tasks)
    /\ \E final_newline \in BOOLEAN :
           stdout = SolverOutput(HeaderLines(mode), solver_lines, final_newline)
    /\ ret_sel_list = <<>>
    /\ ad_exc = ""
    /\ IdleCI /\ IdleK /\ IdleOpt /\ IdleFw /\ IdlePp

\* fw = Framework(num_samples, num_folds, num_subsamples)
InitFw ==
    /\ pc = "fw_constructed"
    /\ num_samples \in 1..MaxSamples
    /\ num_folds \in 0..MaxFolds
    /\ num_subsamples \in 0..MaxSubsamples
    /\ xp_indices = InitIndices(num_folds)
    /\ ncalls = 0
    /\ IdleCI /\ IdleK /\ IdleOpt /\ IdleAd /\ IdlePp

\* One list of causal and one of selected features per task
InitPp ==
    /\ pc = "pp_ready"
    /\ num_features = PpNumFeatures
    /\ \E nt \in 1..MaxTasks :
           /\ causal \in [1..nt -> {SortedSeq(S) : S \in SUBSET (0..(PpNumFeatures - 1))}]
           /\ selected_list \in [1..nt -> {SortedSeq(S) : S \in SUBSET (0..(PpNumFeatures - 1))}]
    /\ measures = Ret(<<>>)
    /\ sel1 = {} /\ sel2 = {} /\ cidx = Ret(Float(0))
    /\ IdleK /\ IdleOpt /\ IdleAd /\ IdleFw

----------------------------------------------------------------------------
(* Actions: one per call *)

Call_compute_ppv_sensitivity ==
    /\ pc = "pp_ready"
    /\ LET r == compute_ppv_sensitivity(causal, selected_list)
       IN  /\ measures' = r
           /\ pc' = IF r.exc = "" THEN "pp_returned" ELSE "pp_raised"
    /\ UNCHANGED <<ciVars, kVars, causal, selected_list, optVars, adVars, fwVars>>

\* handle-output.py, lines 74-84: the measures of one algorithm on one fold
Call_handle_output_measures ==
    /\ pc = "pp_ready"
    /\ LET r == compute_measures_classification(causal, selected_list, num_features)
       IN  /\ measures' = r
           /\ pc' = IF r.exc = "" THEN "ho_returned" ELSE "ho_raised"
    /\ UNCHANGED <<ciVars, kVars, causal, selected_list, optVars, adVars, fwVars>>

Call_consistency_index ==
    /\ pc = "ci_ready"
    /\ LET r == consistency_index(sel1, sel2, num_features)
       IN  /\ cidx' = r
           /\ pc' = IF r.exc = "" THEN "ci_returned" ELSE "ci_raised"
    /\ UNCHANGED <<sel1, sel2, num_features, kVars, ppVars, optVars, adVars, fwVars>>

Call_consistency_index_k ==
    /\ pc = "k_ready"
    /\ LET r == consistency_index_k(sel_list, num_features)
       IN  /\ cidx' = r
           /\ pc' = IF r.exc = "" THEN "k_returned" ELSE "k_raised"
    /\ UNCHANGED <<sel1, sel2, num_features, kVars, ppVars, optVars, adVars, fwVars>>

\* The dictionaries hand out their items in an order the caller does not choose
Call_get_optimal_parameters_from_dict ==
    /\ pc = "opt_ready"
    /\ \E porder \in Orders(DOMAIN selected_dict) :
       \E torders \in [DOMAIN selected_dict -> Orders(OptTasks)] :
       \E r \in {get_optimal_parameters_from_dict(selected_dict, num_features,
                                                 porder, torders)} :
           /\ pc' = IF r.exc = "" THEN "opt_returned" ELSE "opt_raised"
           /\ opt_params' = IF r.exc = "" THEN r.opt_params ELSE EmptyParams
    /\ UNCHANGED <<ciVars, kVars, ppVars, selected_dict, adVars, fwVars>>

\* The end of the three adapters: a value returned, an exception, or pdb
Finish(r) ==
    /\ pc' = IF r.exc # "" THEN "ad_raised" ELSE IF r.pdb THEN "ad_pdb" ELSE "ad_returned"
    /\ ret_sel_list' = IF r.exc # "" THEN <<>> ELSE r.val
    /\ ad_exc' = r.exc
    /\ UNCHANGED <<ciVars, kVars, ppVars, optVars, mode, num_tasks, solver_lines, stdout, fwVars>>

Call_run_sfan ==
    /\ pc = "ad_ready" /\ mode = "run_sfan"
    /\ Finish(run_sfan(num_tasks, stdout))

Call_run_msfan_nocorr ==
    /\ pc = "ad_ready" /\ mode = "run_msfan_nocorr"
    /\ Finish(run_msfan_nocorr(num_tasks, stdout))

Call_run_msfan ==
    /\ pc = "ad_ready" /\ mode = "run_msfan"
    /\ Finish(run_msfan(num_tasks, stdout))

\* The operator leaves the debugger with "continue": line 130 returns sel_list
pdb_continue ==
    /\ pc = "ad_pdb"
    /\ pc' = "ad_returned"
    /\ UNCHANGED <<ciVars, kVars, ppVars, optVars, adVars, fwVars>>

\* fw.compute_indices(seed); the body never reads seed
compute_indices(seed) ==
    /\ pc \in {"fw_constructed", "fw_computed"}
    /\ ncalls < MaxCalls
    /\ IF KFoldRaises(num_samples, num_folds)
       THEN pc' = "fw_raised" /\ UNCHANGED <<xp_indices, ncalls>>
       ELSE /\ pc' = "fw_computed"
            /\ xp_indices' = [i \in 0..(num_folds - 1) |->
                                 FoldIndices(xp_indices[i], num_samples, num_folds, i)]
            /\ ncalls' = ncalls + 1
    /\ UNCHANGED <<ciVars, kVars, ppVars, optVars, adVars, num_samples, num_folds, num_subsamples>>

Seeds == {None, "0", "1"}

NextCI == Call_consistency_index
NextK == Call_consistency_index_k
NextOpt == Call_get_optimal_parameters_from_dict
NextAd == Call_run_sfan \/ Call_run_msfan_nocorr \/ Call_run_msfan \/ pdb_continue
NextFw == \E seed \in Seeds : compute_indices(seed)
NextPp == Call_compute_ppv_sensitivity \/ Call_handle_output_measures

SpecCI == InitCI /\ [][NextCI]_vars
SpecK == InitK /\ [][NextK]_vars
SpecOpt == InitOpt /\ [][NextOpt]_vars
SpecAd == InitAd /\ [][NextAd]_vars
SpecFw == InitFw /\ [][NextFw]_vars
SpecPp == InitPp /\ [][NextPp]_vars

\* The stability scores, pairwise and k-way
InitStab == InitCI \/ InitK
NextStab == NextCI \/ NextK
SpecStab == InitStab /\ [][NextStab]_vars

Init == InitCI \/ InitK \/ InitOpt \/ InitAd \/ InitFw \/ InitPp
Next == NextCI \/ NextK \/ NextOpt \/ NextAd \/ NextFw \/ NextPp
Spec == Init /\ [][Next]_vars

----------------------------------------------------------------------------
(* Properties *)

Card(S) == Cardinality(S)

RECURSIVE RatSum(_, _)
\* The sum of f[x] over the finite set S
RatSum(f, S) ==
    IF S = {} THEN Float(0)
    ELSE LET x == CHOOSE y \in S : TRUE
         IN  RatAdd(f[x], RatSum(f, S \ {x}))

\* C1: for sel1, sel2 within 0..num_features-1 and num_features >= 1,
\* consistency_index returns (observed - expected) / (maxposbl - expected) when
\* maxposbl # expected and 0 when they are equal; stated on integers, with
\* expected = |sel1|*|sel2|/num_features multiplied out.
C1_ConsistencyIndexFormula ==
    (pc # "ci_ready" /\ num_features >= 1) =>
        LET a == Card(sel1)
            b == Card(sel2)
            o == Card(sel1 \cap sel2)
            m == IF a <= b THEN a ELSE b
            n == num_features
        IN  /\ pc = "ci_returned"
            /\ cidx.val[2] > 0
            /\ IF m * n # a * b
               THEN cidx.val[1] * (m * n - a * b) = cidx.val[2] * (o * n - a * b)
               ELSE cidx.val[1] = 0

\* A call whose guard does not fire and whose index is the fraction -1/2
C1_Witness ==
    /\ pc = "ci_returned"
    /\ Card(sel1) * Card(sel2) # num_features * Min(Card(sel1), Card(sel2))
    /\ cidx.val = <<-1, 2>>

\* C10: selecting everything twice, or nothing twice, scores 0 for every
\* num_features >= 1, and the call does not divide by zero.
C10_TrivialSelectionsScoreZero ==
    (/\ pc # "ci_ready"
     /\ num_features >= 1
     /\ sel1 = sel2
     /\ sel1 \in {{}, 0..(num_features - 1)}) =>
        (pc = "ci_returned" /\ cidx.exc = "" /\ cidx.val = Float(0))

\* Every one of several features selected twice
C10_Witness ==
    /\ pc = "ci_returned"
    /\ num_features >= 2
    /\ sel1 = 0..(num_features - 1)
    /\ sel2 = sel1
    /\ cidx.val = Float(0)

\* The unordered pairs of positions of a list of k selections
Pairs(k) == {ij \in (1..k) \X (1..k) : ij[1] < ij[2]}

\* consistency_index of the selections at the two positions of a pair
PairIndex(sl, nf) ==
    [ij \in Pairs(Len(sl)) |-> consistency_index(ToSet(sl[ij[1]]), ToSet(sl[ij[2]]), nf).val]

\* C3: for k >= 2 selections consistency_index_k returns the sum of the pairwise
\* index over all k*(k-1)/2 unordered pairs, each once, times 2/(k*(k-1)).
C3_KWayIsMeanOfPairs ==
    (pc # "k_ready" /\ Len(sel_list) >= 2) =>
        LET k == Len(sel_list)
        IN  /\ pc = "k_returned"
            /\ Card(Pairs(k)) * 2 = k * (k - 1)
            /\ cidx.val = RatMul(Rat(2, k * (k - 1)),
                                 RatSum(PairIndex(sel_list, num_features), Pairs(k)))

\* Three selections whose pairs with the last one all count: the index of
\* <<{0}, {0}, {1, 2}>> over 3 features is (1 - 2 - 2) / 3 = -1
C3_Witness ==
    /\ pc = "k_returned"
    /\ sel_list = <<<<0>>, <<0>>, <<1, 2>>>>
    /\ cidx.val = Float(-1)

\* C9: with fewer than 2 selections consistency_index_k fails with
\* InsufficientDataError.
C9_InsufficientData ==
    (pc # "k_ready" /\ Len(sel_list) < 2) =>
        (pc = "k_raised" /\ cidx.exc = "InsufficientDataError")

\* The k-way index of every (setting, task) of a dictionary
Scores(d, nf) == [pt \in (DOMAIN d) \X OptTasks |-> consistency_index_k(d[pt[1]][pt[2]], nf).val]

\* C2: the setting returned owns the highest of all per-task k-way indices,
\* whenever one of them exceeds the starting optimum 0.
C2_ReturnsOwnerOfHighestScore ==
    LET sc == Scores(selected_dict, num_features)
    IN  (pc = "opt_returned" /\ \E pt \in DOMAIN sc : RatLt(Float(0), sc[pt])) =>
            /\ opt_params \in DOMAIN selected_dict
            /\ \E t \in OptTasks :
                   \A pt \in DOMAIN sc : ~RatLt(sc[<<opt_params, t>>], sc[pt])

\* The second setting is returned for its single highest index, although the
\* indices of the first setting sum to more
C2_Witness ==
    LET sc == Scores(selected_dict, num_features)
    IN  /\ pc = "opt_returned"
        /\ DOMAIN selected_dict = {ParamNames[1], ParamNames[2]}
        /\ opt_params = ParamNames[2]
        /\ RatLt(RatAdd(sc[<<ParamNames[2], 0>>], sc[<<ParamNames[2], 1>>]),
                 RatAdd(sc[<<ParamNames[1], 0>>], sc[<<ParamNames[1], 1>>]))

\* C8: the empty value is returned exactly when every per-task k-way index is
\* <= 0; it is none of the settings; an empty dictionary returns it.
C8_EmptyIffNoPositiveScore ==
    LET sc == Scores(selected_dict, num_features)
    IN  /\ (pc = "opt_returned") =>
               /\ (opt_params = EmptyParams) <=>
                      (\A pt \in DOMAIN sc : ~RatLt(Float(0), sc[pt]))
               /\ opt_params = EmptyParams => opt_params \notin DOMAIN selected_dict
        /\ (pc # "opt_ready" /\ DOMAIN selected_dict = {}) =>
               (pc = "opt_returned" /\ opt_params = EmptyParams)

\* Settings whose highest index is exactly 0: nothing is adopted
C8_Witness ==
    LET sc == Scores(selected_dict, num_features)
    IN  /\ pc = "opt_returned"
        /\ DOMAIN selected_dict # {}
        /\ opt_params = EmptyParams
        /\ \E pt \in DOMAIN sc : sc[pt] = Float(0)

\* The solver wrote one data line per task
OneLinePerTask == Len(solver_lines) = num_tasks

\* C6: from h header lines and num_tasks data lines the adapter returns
\* num_tasks entries, entry t holding the indices of data line t, each less 1,
\* in the order of the line.
C6_ParsesOneBasedLines ==
    (pc # "ad_ready" /\ OneLinePerTask) =>
        /\ pc = "ad_returned"
        /\ Len(ret_sel_list) = num_tasks
        /\ \A t \in 1..num_tasks :
               ret_sel_list[t] = [j \in DOMAIN solver_lines[t] |-> solver_lines[t][j] - 1]

\* run_msfan on 3 header lines and the lines "1 12" and "12"
C6_Witness ==
    /\ pc = "ad_returned"
    /\ mode = "run_msfan"
    /\ num_tasks = 2
    /\ solver_lines = <<<<1, 12>>, <<12>>>>
    /\ ret_sel_list = <<<<0, 11>>, <<11>>>>

\* C7: with fewer than num_tasks data lines, or a data line without an index,
\* the adapter ends in EmptySelectionError: no result is returned and no
\* debugger entered.
C7_EmptySelectionReported ==
    (/\ pc # "ad_ready"
     /\ \/ Len(solver_lines) < num_tasks
        \/ \E t \in DOMAIN solver_lines : solver_lines[t] = <<>>) =>
        (pc = "ad_raised" /\ ad_exc = "EmptySelectionError")

\* The places <<fold, position>> of the test lists that hold sample x
Occurrences(folds, x) ==
    UNION {{<<i, j>> : j \in {j \in DOMAIN folds[i].teIndices : folds[i].teIndices[j] = x}} :
              i \in DOMAIN folds}

\* C4: after compute_indices every fold's train and test indices are disjoint
\* and together 0..num_samples-1, and every sample is a test index exactly once
\* over the num_folds folds.
C4_FoldsPartitionSamples ==
    (pc = "fw_computed") =>
        /\ DOMAIN xp_indices = 0..(num_folds - 1)
        /\ \A i \in DOMAIN xp_indices :
               /\ ToSet(xp_indices[i].trIndices) \cap ToSet(xp_indices[i].teIndices) = {}
               /\ ToSet(xp_indices[i].trIndices) \cup ToSet(xp_indices[i].teIndices)
                      = 0..(num_samples - 1)
        /\ \A x \in 0..(num_samples - 1) : Card(Occurrences(xp_indices, x)) = 1

\* Three folds or more of unequal sizes
C4_Witness ==
    /\ pc = "fw_computed"
    /\ num_folds >= 3
    /\ num_samples % num_folds # 0

\* C5: after compute_indices every fold holds num_subsamples subsample sets,
\* each within the fold's training indices.
C5_SubsamplesOfTraining ==
    (pc = "fw_computed") =>
        \A i \in DOMAIN xp_indices :
            /\ Len(xp_indices[i].ssIndices) = num_subsamples
            /\ \A j \in DOMAIN xp_indices[i].ssIndices :
                   ToSet(xp_indices[i].ssIndices[j]) \subseteq ToSet(xp_indices[i].trIndices)

\* C11: compute_indices leaves the same train, test and subsample indices at
\* every invocation: a call on a Framework whose indices are computed already
\* changes none of them.
C11_RepeatedCallSameIndices ==
    [][(pc = "fw_computed" /\ pc' = "fw_computed") => xp_indices' = xp_indices]_vars

\* PPV and TPR of one task, each a float or the not-a-number signal
Metrics(c, sel) ==
    [ppv |-> IF sel = {} THEN [nan |-> TRUE, val |-> Float(0)]
             ELSE [nan |-> FALSE, val |-> Rat(Card(sel \cap c), Card(sel))],
     tpr |-> [nan |-> FALSE, val |-> Rat(Card(sel \cap c), Card(c))]]

\* C12: the scoring, also the one the output-handling script calls, returns per
\* task PPV = |selected & causal| / |selected| (undefined for no selection) and
\* TPR = |selected & causal| / |causal|, and fails with InvalidGroundTruth when
\* a causal set is empty.
C12_ScorerReturnsPpvTpr ==
    (pc # "pp_ready") =>
        IF \E t \in DOMAIN causal : causal[t] = <<>>
        THEN measures.exc = "InvalidGroundTruth"
        ELSE /\ measures.exc = ""
             /\ pc \in {"pp_returned", "ho_returned"}
             /\ DOMAIN measures.val = DOMAIN selected_list
             /\ \A t \in DOMAIN selected_list :
                    measures.val[t] = Metrics(ToSet(causal[t]), ToSet(selected_list[t]))

RatLe(x, y) == ~RatLt(y, x)

\* C13 as stated: every pairwise index of subsets of the features, and every
\* k-way index of k >= 2 such subsets, lies in [-1, 1].
C13_ScoreWithinMinusOneOne ==
    /\ (pc = "ci_returned" /\ num_features >= 1) =>
           (RatLe(Float(-1), cidx.val) /\ RatLe(cidx.val, Float(1)))
    /\ (pc = "k_returned") =>
           (RatLe(Float(-1), cidx.val) /\ RatLe(cidx.val, Float(1)))

\* C13 as amended: the pairwise index lies in [-(num_features - 1), 1], and in
\* [-1, 1] when the two selections have the same number of features; so does
\* the k-way index of k >= 2 selections, in [-1, 1] when all have the same
\* number of features.
C13_ScoreBounds ==
    /\ (pc = "ci_returned" /\ num_features >= 1) =>
           /\ RatLe(cidx.val, Float(1))
           /\ RatLe(Float(-(num_features - 1)), cidx.val)
           /\ Card(sel1) = Card(sel2) => RatLe(Float(-1), cidx.val)
    /\ (pc = "k_returned") =>
           /\ RatLe(cidx.val, Float(1))
           /\ RatLe(Float(-(num_features - 1)), cidx.val)
           /\ (\A i, j \in DOMAIN sel_list : Len(sel_list[i]) = Len(sel_list[j]))
                  => RatLe(Float(-1), cidx.val)

\* One feature against two others out of three: the index is -2
C13_Witness ==
    /\ pc = "ci_returned"
    /\ num_features >= 3
    /\ Card(sel1) # Card(sel2)
    /\ cidx.val = Float(-(num_features - 1))

\* C14: consistency_index(A, B, n) = consistency_index(B, A, n) for n >= 1,
\* also where the zero guard fires.
C14_Symmetric ==
    (pc # "ci_ready" /\ num_features >= 1) =>
        cidx = consistency_index(sel2, sel1, num_features)

\* Selections of different sizes with an index other than 0
C14_Witness ==
    /\ pc = "ci_returned"
    /\ Card(sel1) < Card(sel2)
    /\ cidx.val # Float(0)
    /\ cidx = consistency_index(sel2, sel1, num_features)

\* C15: a selection of some but not all features has index 1 with itself.
C15_IdenticalScoreOne ==
    (/\ pc # "ci_ready"
     /\ sel1 = sel2
     /\ 0 < Card(sel1)
     /\ Card(sel1) < num_features) =>
        (pc = "ci_returned" /\ cidx.val = Float(1))

\* {1, 2} against itself among 4 features
C15_Witness ==
    /\ pc = "ci_returned"
    /\ num_features = 4
    /\ sel1 = {1, 2}
    /\ sel2 = {1, 2}
    /\ cidx.val = Float(1)

\* Whether the call skipped the division of line 38
GuardFired(s1, s2, nf) ==
    ~NotTrivial(Observed(s1, s2), Expected(s1, s2, nf).val, Maxposbl(s1, s2))

\* C16: the zero guard fires exactly when the smaller selection is empty or the
\* larger one holds all num_features features, so also when only one of the two
\* is empty or full; otherwise maxposbl - expected is strictly positive.
C16_GuardFiresIffEmptyOrFull ==
    (pc # "ci_ready" /\ num_features >= 1) =>
        LET small == Min(Card(sel1), Card(sel2))
            large == IF Card(sel1) < Card(sel2) THEN Card(sel2) ELSE Card(sel1)
        IN  /\ GuardFired(sel1, sel2, num_features) <=> (small = 0 \/ large = num_features)
            /\ GuardFired(sel1, sel2, num_features) => cidx.val = Float(0)
            /\ ~GuardFired(sel1, sel2, num_features) =>
                   RatLt(Float(0), RatSub(Maxposbl(sel1, sel2),
                                          Expected(sel1, sel2, num_features).val))

\* Only one of the selections is empty, the other neither empty nor full
C16_Witness ==
    /\ pc = "ci_returned"
    /\ sel1 = {}
    /\ sel2 # {}
    /\ Card(sel2) < num_features
    /\ GuardFired(sel1, sel2, num_features)
    /\ cidx.val = Float(0)

====
